---- MODULE Spec2Model ----
(***************************************************************************)
(* Task manager REST API: signup / login, the bearer-token gate and the    *)
(* owner-scoped task CRUD handlers over the users and tasks tables.        *)
(*                                                                         *)
(* Encoding of JavaScript values.  A string that the code inspects         *)
(* character by character (email, password, name, title, description, the  *)
(* :id path segment) is a sequence of one-character strings.  The values   *)
(* undefined and null of such a field are the one-element sequences Undef  *)
(* and Null, which no character sequence equals.  Enumerated fields        *)
(* (priority, status, dueDate) are plain strings, with UndefS and NullS    *)
(* for undefined and null.  NotAString stands for a truthy JSON value that *)
(* is not a string.                                                        *)
(***************************************************************************)
EXTENDS Bags, FiniteSets, Integers, Sequences, TLC

VARIABLES
    users,      \* rows of table users
    tasks,      \* rows of table tasks
    nextTaskId, \* next value of the tasks.id sequence
    clock,      \* server time, in days
    issued,     \* tokens handed out by successful logins, each with the id
                \* of the user whose login it answered
    pending,    \* bag of requests whose handler waits for its store statement
    accounts,   \* the signups answered 201, with the password they gave
    last,       \* what the step just taken did to its request
    storage,    \* the browser's localStorage: items token and user
    inbox,      \* bag of responses on their way to the browser
    session,    \* the token of the last login that succeeded in the browser
                \* with no logout and no 401 / 403 response since, if any
    tokenState, \* AuthProvider's React state token
    navigating, \* window.location.href was assigned and the document it
                \* names has not loaded yet
    page,       \* the Tasks page: "off" (not mounted), "loading", "ready"
    tasksState, \* the Tasks page's React state tasks: the list it shows
    handlers,   \* bag of Tasks page handlers suspended at their await, each
                \* with the tasks value of the render that started it and
                \* the response on its way
    clean       \* no request of the Tasks page has failed since it mounted

\* the Tasks page
tasksPage == <<page, tasksState, handlers, clean>>

\* the browser
client == <<storage, inbox, session, tokenState, navigating, tasksPage>>

vars ==
    <<users, tasks, nextTaskId, clock, issued, pending, accounts, last,
      storage, inbox, session, tokenState, navigating, page, tasksState,
      handlers, clean>>

----------------------------------------------------------------------------
(* Bounds of the model *)

MaxTaskId == 2      \* create is explored while the id sequence is <= this
MaxTokens == 2      \* logins are explored while fewer tokens are out
MaxClock == 7       \* the clock is explored up to this day
MaxInflight == 2    \* requests concurrently waiting for the store
MaxInbox == 2       \* responses the browser has not handled yet

----------------------------------------------------------------------------
(* JavaScript values *)

Undef == <<"undefined">>
Null == <<"null">>
UndefS == "undefined"
NullS == "null"

\* a truthy JSON value that is not a string (a number, an array, an object):
\* it has no trim method, so x.trim() throws a TypeError
NotAString == <<"number">>

\* !x for a character-sequence value: undefined, null and '' are falsy
Falsy(s) == s = Undef \/ s = Null \/ s = <<>>

\* !x for a plain-string value
FalsyS(s) == s = UndefS \/ s = NullS \/ s = ""

IsSpace(c) == c \in {" ", "\t", "\n"}

RECURSIVE TrimStart(_)
TrimStart(s) ==
    IF s # <<>> /\ IsSpace(Head(s)) THEN TrimStart(Tail(s)) ELSE s

RECURSIVE TrimEnd(_)
TrimEnd(s) ==
    IF s # <<>> /\ IsSpace(s[Len(s)])
    THEN TrimEnd(SubSeq(s, 1, Len(s) - 1))
    ELSE s

\* String.prototype.trim
Trim(s) == TrimEnd(TrimStart(s))

\* x?.trim(): undefined when x is undefined or null
OptTrim(s) == IF s = Undef \/ s = Null THEN Undef ELSE Trim(s)

\* [^\s@]+ over the whole of s
NoSpaceNoAt(s) ==
    /\ Len(s) >= 1
    /\ \A i \in 1..Len(s) : ~IsSpace(s[i]) /\ s[i] # "@"

\* /^[^\s@]+@[^\s@]+\.[^\s@]+$/.test(email)
emailRegexTest(s) ==
    \E i \in 1..Len(s) : \E j \in 1..Len(s) :
        /\ i < j
        /\ s[i] = "@"
        /\ s[j] = "."
        /\ NoSpaceNoAt(SubSeq(s, 1, i - 1))
        /\ NoSpaceNoAt(SubSeq(s, i + 1, j - 1))
        /\ NoSpaceNoAt(SubSeq(s, j + 1, Len(s)))

Digits == {"0", "1", "2", "3", "4", "5", "6", "7", "8", "9"}

DigitVal(c) ==
    CASE c = "0" -> 0 [] c = "1" -> 1 [] c = "2" -> 2 [] c = "3" -> 3
      [] c = "4" -> 4 [] c = "5" -> 5 [] c = "6" -> 6 [] c = "7" -> 7
      [] c = "8" -> 8 [] c = "9" -> 9

RECURSIVE DigitPrefix(_, _)
DigitPrefix(s, acc) ==
    IF s # <<>> /\ Head(s) \in Digits
    THEN DigitPrefix(Tail(s), acc * 10 + DigitVal(Head(s)))
    ELSE acc

\* parseInt(s): skips leading white space, reads the longest prefix of
\* digits, NaN when there is none
parseInt(s) ==
    LET t == TrimStart(s) IN
    IF t # <<>> /\ Head(t) \in Digits
    THEN [nan |-> FALSE, val |-> DigitPrefix(t, 0)]
    ELSE [nan |-> TRUE, val |-> 0]

----------------------------------------------------------------------------
(* Password hashing *)

saltRounds == 10

\* bcrypt.hash(password, saltRounds): the tail stands for the salted digest
\* of the password, which only the same password reproduces
bcryptHash(pw) == <<"$2a$", "10$">> \o pw

\* bcrypt.compare(password, hash)
bcryptCompare(pw, hash) == hash = bcryptHash(pw)

----------------------------------------------------------------------------
(* Table users *)

\* users.id: the next value of the serial column
NextUserId(us) == Cardinality(us) + 1

\* INSERT INTO users under the UNIQUE constraint on email: SQLSTATE 23505
\* and no row when the email is taken
InsertUser(us, email, hash, name, now) ==
    IF \E u \in us : u.email = email
    THEN [code |-> "23505", rows |-> {}, users |-> us]
    ELSE LET row == [id |-> NextUserId(us), email |-> email,
                     password_hash |-> hash, name |-> name,
                     created_at |-> now]
         IN [code |-> "ok", rows |-> {row}, users |-> us \cup {row}]

\* the catch block testing for another SQLSTATE than the unique violation
createUserErrorWrongCode(code) ==
    IF code = "23503" THEN "Email already exists" ELSE "internal"

\* createUser, the catch block: the unique violation becomes the domain error
createUserError(code) ==
    IF code = "23505" THEN "Email already exists" ELSE "internal"

\* createUser answering a unique violation with the row that holds the email
createUserReturnExisting(us, email, password, name, now) ==
    LET r == InsertUser(us, email, bcryptHash(password), name, now)
        row == CHOOSE x \in r.users : x.email = email
    IN [error |-> "", users |-> r.users,
        row |-> [id |-> row.id, email |-> row.email, name |-> row.name,
                 created_at |-> row.created_at]]

\* createUser: hashes, inserts, RETURNING id, email, name, created_at
createUser(us, email, password, name, now) ==
    LET r == InsertUser(us, email, bcryptHash(password), name, now) IN
    IF r.code = "ok"
    THEN LET row == CHOOSE x \in r.rows : TRUE IN
         [error |-> "", users |-> r.users,
          row |-> [id |-> row.id, email |-> row.email, name |-> row.name,
                   created_at |-> row.created_at]]
    ELSE [error |-> createUserError(r.code), users |-> r.users,
          row |-> [id |-> 0, email |-> Undef, name |-> Undef,
                   created_at |-> 0]]

\* findUserByEmail: SELECT id, email, password_hash, name, created_at
findUserByEmail(us, email) ==
    {[id |-> u.id, email |-> u.email, password_hash |-> u.password_hash,
      name |-> u.name, created_at |-> u.created_at] :
        u \in {x \in us : x.email = email}}

\* findUserById selecting every column
findUserByIdAllColumns(us, userId) == {x \in us : x.id = userId}

\* findUserById: SELECT id, email, name, created_at
findUserById(us, userId) ==
    {[id |-> u.id, email |-> u.email, name |-> u.name,
      created_at |-> u.created_at] : u \in {x \in us : x.id = userId}}

----------------------------------------------------------------------------
(* Bearer tokens *)

\* a token lifetime one day too long
TokenTTLLong == 7 + 1

\* process.env.JWT_EXPIRE || '7d', in days
TokenTTL == 7

\* jwt.sign({userId, email}, JWT_SECRET, {expiresIn}): sig "server" is a
\* signature made with JWT_SECRET
signToken(user, now) ==
    [userId |-> user.id, email |-> user.email, iat |-> now,
     exp |-> now + TokenTTL, sig |-> "server"]

NoToken == [userId |-> 0, email |-> Undef, iat |-> 0, exp |-> 0, sig |-> "none"]

\* what a request carries in its Authorization header
NoAuth == [kind |-> "none", token |-> NoToken]
Malformed == [kind |-> "malformed", token |-> NoToken]
Bearer(t) == [kind |-> "bearer", token |-> t]

\* req.user
NoUser == [set |-> FALSE, userId |-> 0, email |-> Undef]

\* authenticateToken: 401 without a token; 403 when jwt.verify fails on a
\* malformed token, a signature not made with JWT_SECRET or now >= exp;
\* otherwise req.user is the payload and the next handler runs
authenticateToken(auth, now) ==
    IF auth.kind = "none"
    THEN [ok |-> FALSE, status |-> 401, error |-> "Access token required",
          user |-> NoUser]
    ELSE IF \/ auth.kind # "bearer"
            \/ auth.token.sig # "server"
            \/ now >= auth.token.exp
    THEN [ok |-> FALSE, status |-> 403, error |-> "Invalid or expired token",
          user |-> NoUser]
    ELSE [ok |-> TRUE, status |-> 0, error |-> "",
          user |-> [set |-> TRUE, userId |-> auth.token.userId,
                    email |-> auth.token.email]]

\* the routes with authenticateToken left off PUT /api/tasks/:id
routeChainOpenUpdate(op) ==
    CASE op = "signup" -> <<"signup">>
      [] op = "login" -> <<"login">>
      [] op = "me" -> <<"authenticateToken", "getCurrentUser">>
      [] op = "list" -> <<"authenticateToken", "getAllTasks">>
      [] op = "get" -> <<"authenticateToken", "getTask">>
      [] op = "create" -> <<"authenticateToken", "create">>
      [] op = "update" -> <<"update">>
      [] op = "delete" -> <<"authenticateToken", "remove">>

\* router.<verb>(path, ...): the middleware chain of each route
routeChain(op) ==
    CASE op = "signup" -> <<"signup">>
      [] op = "login" -> <<"login">>
      [] op = "me" -> <<"authenticateToken", "getCurrentUser">>
      [] op = "list" -> <<"authenticateToken", "getAllTasks">>
      [] op = "get" -> <<"authenticateToken", "getTask">>
      [] op = "create" -> <<"authenticateToken", "create">>
      [] op = "update" -> <<"authenticateToken", "update">>
      [] op = "delete" -> <<"authenticateToken", "remove">>

\* express runs the chain in order: the outcome of what precedes the handler
runMiddleware(op, auth, now) ==
    IF Head(routeChain(op)) = "authenticateToken"
    THEN authenticateToken(auth, now)
    ELSE [ok |-> TRUE, status |-> 0, error |-> "", user |-> NoUser]

----------------------------------------------------------------------------
(* Table tasks *)

\* strings new Date() parses, each with the JSON form of the stored date
ParsableDates == {"2025-01-15", "2025-01-15T00:00:00.000Z"}

\* isNaN(new Date(dueDate).getTime())
isInvalidDate(s) == s \notin ParsableDates

\* due_date as the driver returns it and res.json serialises it: null stays
\* null, a date comes back as an ISO timestamp
dueDateColumn(s) ==
    IF s = NullS THEN NullS ELSE "2025-01-15T00:00:00.000Z"

\* createTask storing the default priority whatever was supplied
createTaskDefaultPriority(ts, id, userId, taskData, now) ==
    LET row == [id |-> id,
                user_id |-> userId,
                title |-> taskData.title,
                description |-> IF Falsy(taskData.description)
                                THEN Null ELSE taskData.description,
                priority |-> "medium",
                due_date |-> dueDateColumn(IF FalsyS(taskData.dueDate)
                                           THEN NullS ELSE taskData.dueDate),
                status |-> IF FalsyS(taskData.status)
                           THEN "pending" ELSE taskData.status,
                created_at |-> now,
                updated_at |-> now]
    IN [rows |-> {row}, tasks |-> ts \cup {row}]

\* INSERT INTO tasks ... RETURNING the row
createTask(ts, id, userId, taskData, now) ==
    LET row == [id |-> id,
                user_id |-> userId,
                title |-> taskData.title,
                description |-> IF Falsy(taskData.description)
                                THEN Null ELSE taskData.description,
                priority |-> IF FalsyS(taskData.priority)
                             THEN "medium" ELSE taskData.priority,
                due_date |-> dueDateColumn(IF FalsyS(taskData.dueDate)
                                           THEN NullS ELSE taskData.dueDate),
                status |-> IF FalsyS(taskData.status)
                           THEN "pending" ELSE taskData.status,
                created_at |-> now,
                updated_at |-> now]
    IN [rows |-> {row}, tasks |-> ts \cup {row}]

\* SELECT ... FROM tasks WHERE user_id = $1
getTasksByUserId(ts, userId) == {t \in ts : t.user_id = userId}

\* getTaskById with the owner filter left out of the WHERE clause
getTaskByIdAnyOwner(ts, taskId, userId) == {t \in ts : t.id = taskId}

\* SELECT ... FROM tasks WHERE id = $1 AND user_id = $2
getTaskById(ts, taskId, userId) ==
    {t \in ts : t.id = taskId /\ t.user_id = userId}

\* updateTask inserting the row when none matches (INSERT ... ON CONFLICT)
updateTaskUpsert(ts, taskId, userId, taskData, now) ==
    LET hit == {t \in ts : t.id = taskId /\ t.user_id = userId}
        row(created) == [id |-> taskId,
                         user_id |-> userId,
                         title |-> taskData.title,
                         description |-> taskData.description,
                         priority |-> taskData.priority,
                         due_date |-> dueDateColumn(taskData.dueDate),
                         status |-> taskData.status,
                         created_at |-> created,
                         updated_at |-> now]
        rows == IF hit = {} THEN {row(now)}
                ELSE {row(t.created_at) : t \in hit}
    IN [rows |-> rows,
        tasks |-> {t \in ts : t.id # taskId} \cup rows]

\* updateTask with the id left out of the WHERE clause
updateTaskAllOfOwner(ts, taskId, userId, taskData, now) ==
    LET hit == {t \in ts : t.user_id = userId}
        new(t) == [id |-> t.id,
                   user_id |-> t.user_id,
                   title |-> taskData.title,
                   description |-> taskData.description,
                   priority |-> taskData.priority,
                   due_date |-> dueDateColumn(taskData.dueDate),
                   status |-> taskData.status,
                   created_at |-> t.created_at,
                   updated_at |-> now]
    IN [rows |-> {new(t) : t \in hit},
        tasks |-> (ts \ hit) \cup {new(t) : t \in hit}]

\* updateTask with updated_at left out of the SET list
updateTaskKeepStamp(ts, taskId, userId, taskData, now) ==
    LET hit == {t \in ts : t.id = taskId /\ t.user_id = userId}
        new(t) == [id |-> t.id,
                   user_id |-> t.user_id,
                   title |-> taskData.title,
                   description |-> taskData.description,
                   priority |-> taskData.priority,
                   due_date |-> dueDateColumn(taskData.dueDate),
                   status |-> taskData.status,
                   created_at |-> t.created_at,
                   updated_at |-> t.updated_at]
    IN [rows |-> {new(t) : t \in hit},
        tasks |-> (ts \ hit) \cup {new(t) : t \in hit}]

\* UPDATE tasks SET ... WHERE id = $6 AND user_id = $7 RETURNING the row
updateTask(ts, taskId, userId, taskData, now) ==
    LET hit == {t \in ts : t.id = taskId /\ t.user_id = userId}
        new(t) == [id |-> t.id,
                   user_id |-> t.user_id,
                   title |-> taskData.title,
                   description |-> taskData.description,
                   priority |-> taskData.priority,
                   due_date |-> dueDateColumn(taskData.dueDate),
                   status |-> taskData.status,
                   created_at |-> t.created_at,
                   updated_at |-> now]
    IN [rows |-> {new(t) : t \in hit},
        tasks |-> (ts \ hit) \cup {new(t) : t \in hit}]

\* deleteTask with the id left out of the WHERE clause
deleteTaskAllOfOwner(ts, taskId, userId) ==
    LET hit == {t \in ts : t.user_id = userId}
    IN [deleted |-> hit # {}, tasks |-> ts \ hit]

\* DELETE FROM tasks WHERE id = $1 AND user_id = $2 RETURNING id
deleteTask(ts, taskId, userId) ==
    LET hit == {t \in ts : t.id = taskId /\ t.user_id = userId}
    IN [deleted |-> hit # {}, tasks |-> ts \ hit]

\* ORDER BY created_at DESC: the orders the store may return rows in
RECURSIVE SeqsOf(_)
SeqsOf(S) ==
    IF S = {} THEN {<<>>}
    ELSE UNION {{<<x>> \o q : q \in SeqsOf(S \ {x})} : x \in S}

\* getTasksByUserId ordering oldest first
orderByCreatedAsc(rows) ==
    {q \in SeqsOf(rows) :
        \A i \in 1..Len(q) : \A j \in 1..Len(q) :
            i < j => q[i].created_at <= q[j].created_at}

orderByCreatedDesc(rows) ==
    {q \in SeqsOf(rows) :
        \A i \in 1..Len(q) : \A j \in 1..Len(q) :
            i < j => q[i].created_at >= q[j].created_at}

----------------------------------------------------------------------------
(* Handlers: the part that runs before the first await, then the part that *)
(* runs when the store statement has answered                              *)

NoData ==
    [title |-> Undef, description |-> Undef, priority |-> UndefS,
     dueDate |-> UndefS, status |-> UndefS]

\* the local variables a handler holds while it awaits the store
Entry(op, userId, taskId, email, password, name, data) ==
    [op |-> op, userId |-> userId, taskId |-> taskId, email |-> email,
     password |-> password, name |-> name, data |-> data]

NoEntry == Entry("", 0, 0, Undef, Undef, Undef, NoData)

ErrBody(msg) == [error |-> msg]

Reply(status, body) ==
    [reply |-> TRUE, status |-> status, body |-> body, entry |-> NoEntry]

Await(entry) ==
    [reply |-> FALSE, status |-> 0, body |-> ErrBody(""), entry |-> entry]

\* the task object of a response body
taskJSON(t) ==
    [id |-> t.id, userId |-> t.user_id, title |-> t.title,
     description |-> t.description, priority |-> t.priority,
     dueDate |-> t.due_date, status |-> t.status,
     createdAt |-> t.created_at, updatedAt |-> t.updated_at]

\* signup letting a password of five characters through
signupSyncMinFive(body) ==
    IF Falsy(body.email) \/ Falsy(body.password) \/ Falsy(body.name)
    THEN Reply(400, ErrBody("Email, password, and name are required"))
    ELSE IF ~emailRegexTest(body.email)
    THEN Reply(400, ErrBody("Invalid email format"))
    ELSE IF Len(body.password) < 5
    THEN Reply(400, ErrBody("Password must be at least 6 characters"))
    ELSE Await(Entry("signup", 0, 0, body.email, body.password, body.name,
                     NoData))

\* signup, up to await createUser
signupSync(body) ==
    IF Falsy(body.email) \/ Falsy(body.password) \/ Falsy(body.name)
    THEN Reply(400, ErrBody("Email, password, and name are required"))
    ELSE IF ~emailRegexTest(body.email)
    THEN Reply(400, ErrBody("Invalid email format"))
    ELSE IF Len(body.password) < 6
    THEN Reply(400, ErrBody("Password must be at least 6 characters"))
    ELSE Await(Entry("signup", 0, 0, body.email, body.password, body.name,
                     NoData))

\* signup, from the answer of createUser on
signupDone(p, us, now) ==
    LET r == createUser(us, p.email, p.password, p.name, now) IN
    IF r.error = ""
    THEN [status |-> 201, users |-> r.users,
          body |-> [message |-> "User created successfully",
                    user |-> [id |-> r.row.id, email |-> r.row.email,
                              name |-> r.row.name]]]
    ELSE IF r.error = "Email already exists"
    THEN [status |-> 409, users |-> r.users,
          body |-> ErrBody("Email already exists")]
    ELSE [status |-> 500, users |-> r.users,
          body |-> ErrBody("Server error during signup")]

\* login, up to await findUserByEmail
loginSync(body) ==
    IF Falsy(body.email) \/ Falsy(body.password)
    THEN Reply(400, ErrBody("Email and password are required"))
    ELSE Await(Entry("login", 0, 0, body.email, body.password, Undef, NoData))

\* the comparison reading a column that does not hold the hash
isPasswordValidWrongColumn(password, user) ==
    bcryptCompare(password, user.email)

\* login: await bcrypt.compare(password, user.password_hash)
isPasswordValid(password, user) == bcryptCompare(password, user.password_hash)

\* a login that tells an unknown email apart
loginUnknownEmailRevealing == [status |-> 404, error |-> "User not found"]

\* login, the response when no user has the email
loginUnknownEmail == [status |-> 401, error |-> "Invalid email or password"]

\* login, the response when bcrypt.compare is false
loginWrongPassword == [status |-> 401, error |-> "Invalid email or password"]

\* login, from the answer of findUserByEmail on
loginDone(p, us, now) ==
    LET found == findUserByEmail(us, p.email) IN
    IF found = {}
    THEN [status |-> loginUnknownEmail.status, ok |-> FALSE, holder |-> 0,
          token |-> NoToken, body |-> ErrBody(loginUnknownEmail.error)]
    ELSE LET user == CHOOSE u \in found : TRUE IN
         IF ~isPasswordValid(p.password, user)
         THEN [status |-> loginWrongPassword.status, ok |-> FALSE,
               holder |-> 0, token |-> NoToken,
               body |-> ErrBody(loginWrongPassword.error)]
         ELSE LET token == signToken(user, now) IN
              [status |-> 200, ok |-> TRUE, holder |-> user.id,
               token |-> token,
               body |-> [message |-> "Login successful", token |-> token,
                         user |-> [id |-> user.id, email |-> user.email,
                                   name |-> user.name]]]

\* getCurrentUser reading req.user.id, a field the token payload lacks
getCurrentUserSyncWrongField(reqUser) ==
    IF ~reqUser.set
    THEN Reply(500, ErrBody("Server error fetching user"))
    ELSE Await(Entry("me", 0, 0, Undef, Undef, Undef, NoData))

\* getCurrentUser, up to await findUserById; reading req.user.userId of an
\* unset req.user throws inside the try block
getCurrentUserSync(reqUser) ==
    IF ~reqUser.set
    THEN Reply(500, ErrBody("Server error fetching user"))
    ELSE Await(Entry("me", reqUser.userId, 0, Undef, Undef, Undef, NoData))

\* getCurrentUser, from the answer of findUserById on
getCurrentUserDone(p, us) ==
    LET found == findUserById(us, p.userId) IN
    IF found = {}
    THEN [status |-> 404, body |-> ErrBody("User not found")]
    ELSE LET user == CHOOSE u \in found : TRUE IN
         [status |-> 200,
          body |-> [user |-> [id |-> user.id, email |-> user.email,
                              name |-> user.name,
                              createdAt |-> user.created_at]]]

\* create, the validation of the request body
createValidation(body) ==
    IF Falsy(body.title) \/ Trim(body.title) = <<>>
    THEN "Title is required"
    ELSE IF ~FalsyS(body.priority)
            /\ body.priority \notin {"low", "medium", "high"}
    THEN "Priority must be low, medium, or high"
    ELSE IF ~FalsyS(body.status)
            /\ body.status \notin {"pending", "in_progress", "completed"}
    THEN "Status must be pending, in_progress, or completed"
    ELSE IF ~FalsyS(body.dueDate) /\ isInvalidDate(body.dueDate)
    THEN "Invalid due date format"
    ELSE ""

\* create handing the title to createTask as it was sent
createTaskDataUntrimmed(body) ==
    [title |-> body.title,
     description |-> OptTrim(body.description),
     priority |-> body.priority,
     dueDate |-> body.dueDate,
     status |-> body.status]

\* create, the taskData object handed to createTask
createTaskData(body) ==
    [title |-> Trim(body.title),
     description |-> OptTrim(body.description),
     priority |-> body.priority,
     dueDate |-> body.dueDate,
     status |-> body.status]

\* create taking the owner from a userId field of the request body when
\* there is one
createSyncOwnerFromBody(reqUser, body) ==
    IF body.title = NotAString
    THEN Reply(500, ErrBody("Server error creating task"))
    ELSE IF createValidation(body) # ""
    THEN Reply(400, ErrBody(createValidation(body)))
    ELSE IF ~reqUser.set \/ body.description = NotAString
    THEN Reply(500, ErrBody("Server error creating task"))
    ELSE Await(Entry("create",
                     IF "userId" \in DOMAIN body
                     THEN body.userId ELSE reqUser.userId,
                     0, Undef, Undef, Undef, createTaskData(body)))

\* create, up to await createTask; a TypeError thrown by title.trim(), by
\* req.user.userId or by description?.trim() lands in the catch block
createSync(reqUser, body) ==
    IF body.title = NotAString
    THEN Reply(500, ErrBody("Server error creating task"))
    ELSE IF createValidation(body) # ""
    THEN Reply(400, ErrBody(createValidation(body)))
    ELSE IF ~reqUser.set \/ body.description = NotAString
    THEN Reply(500, ErrBody("Server error creating task"))
    ELSE Await(Entry("create", reqUser.userId, 0, Undef, Undef, Undef,
                     createTaskData(body)))

\* create, from the answer of createTask on
createDone(p, ts, id, now) ==
    LET r == createTask(ts, id, p.userId, p.data, now)
        task == CHOOSE t \in r.rows : TRUE
    IN [status |-> 201, tasks |-> r.tasks,
        body |-> [message |-> "Task created successfully",
                  task |-> taskJSON(task)]]

\* getAllTasks, up to await getTasksByUserId
getAllTasksSync(reqUser) ==
    IF ~reqUser.set
    THEN Reply(500, ErrBody("Server error fetching tasks"))
    ELSE Await(Entry("list", reqUser.userId, 0, Undef, Undef, Undef, NoData))

\* getAllTasks, from the rows (in the order the store returned them) on
getAllTasksDone(rows) ==
    [status |-> 200,
     body |-> [count |-> Len(rows),
               tasks |-> [i \in 1..Len(rows) |-> taskJSON(rows[i])]]]

\* getTask, up to await getTaskById
getTaskSync(reqUser, idParam) ==
    LET taskId == parseInt(idParam) IN
    IF taskId.nan
    THEN Reply(400, ErrBody("Invalid task ID"))
    ELSE IF ~reqUser.set
    THEN Reply(500, ErrBody("Server error fetching task"))
    ELSE Await(Entry("get", reqUser.userId, taskId.val, Undef, Undef, Undef,
                     NoData))

\* getTask answering 403 when the id exists under another owner
getTaskDoneForbidden(p, ts) ==
    LET found == getTaskById(ts, p.taskId, p.userId) IN
    IF found = {} /\ \E t \in ts : t.id = p.taskId
    THEN [status |-> 403, body |-> ErrBody("Forbidden")]
    ELSE IF found = {}
    THEN [status |-> 404, body |-> ErrBody("Task not found")]
    ELSE [status |-> 200,
          body |-> [task |-> taskJSON(CHOOSE t \in found : TRUE)]]

\* getTask, from the answer of getTaskById on
getTaskDone(p, ts) ==
    LET found == getTaskById(ts, p.taskId, p.userId) IN
    IF found = {}
    THEN [status |-> 404, body |-> ErrBody("Task not found")]
    ELSE [status |-> 200,
          body |-> [task |-> taskJSON(CHOOSE t \in found : TRUE)]]

\* update, the validation of the request body
updateValidation(body) ==
    IF Falsy(body.title) \/ Trim(body.title) = <<>>
    THEN "Title is required"
    ELSE IF ~FalsyS(body.priority)
            /\ body.priority \notin {"low", "medium", "high"}
    THEN "Priority must be low, medium, or high"
    ELSE IF ~FalsyS(body.status)
            /\ body.status \notin {"pending", "in_progress", "completed"}
    THEN "Status must be pending, in_progress, or completed"
    ELSE IF ~FalsyS(body.dueDate) /\ isInvalidDate(body.dueDate)
    THEN "Invalid due date format"
    ELSE ""

\* update handing the request's fields to updateTask as create does, with no
\* default for an omitted one
updateTaskDataNoDefaults(body) ==
    [title |-> Trim(body.title),
     description |-> OptTrim(body.description),
     priority |-> body.priority,
     dueDate |-> body.dueDate,
     status |-> body.status]

\* update, the taskData object handed to updateTask
updateTaskData(body) ==
    [title |-> Trim(body.title),
     description |-> IF Falsy(OptTrim(body.description))
                     THEN Null ELSE OptTrim(body.description),
     priority |-> IF FalsyS(body.priority) THEN "medium" ELSE body.priority,
     dueDate |-> IF FalsyS(body.dueDate) THEN NullS ELSE body.dueDate,
     status |-> IF FalsyS(body.status) THEN "pending" ELSE body.status]

\* update, up to await updateTask
updateSync(reqUser, idParam, body) ==
    LET taskId == parseInt(idParam) IN
    IF taskId.nan
    THEN Reply(400, ErrBody("Invalid task ID"))
    ELSE IF body.title = NotAString
    THEN Reply(500, ErrBody("Server error updating task"))
    ELSE IF updateValidation(body) # ""
    THEN Reply(400, ErrBody(updateValidation(body)))
    ELSE IF ~reqUser.set \/ body.description = NotAString
    THEN Reply(500, ErrBody("Server error updating task"))
    ELSE Await(Entry("update", reqUser.userId, taskId.val, Undef, Undef,
                     Undef, updateTaskData(body)))

\* update, from the answer of updateTask on
updateDone(p, ts, now) ==
    LET r == updateTask(ts, p.taskId, p.userId, p.data, now) IN
    IF r.rows = {}
    THEN [status |-> 404, tasks |-> r.tasks,
          body |-> ErrBody("Task not found")]
    ELSE [status |-> 200, tasks |-> r.tasks,
          body |-> [message |-> "Task updated successfully",
                    task |-> taskJSON(CHOOSE t \in r.rows : TRUE)]]

\* remove, up to await deleteTask
removeSync(reqUser, idParam) ==
    LET taskId == parseInt(idParam) IN
    IF taskId.nan
    THEN Reply(400, ErrBody("Invalid task ID"))
    ELSE IF ~reqUser.set
    THEN Reply(500, ErrBody("Server error deleting task"))
    ELSE Await(Entry("delete", reqUser.userId, taskId.val, Undef, Undef,
                     Undef, NoData))

\* remove, from the answer of deleteTask on
removeDone(p, ts) ==
    LET r == deleteTask(ts, p.taskId, p.userId) IN
    IF ~r.deleted
    THEN [status |-> 404, tasks |-> r.tasks,
          body |-> ErrBody("Task not found")]
    ELSE [status |-> 200, tasks |-> r.tasks,
          body |-> [message |-> "Task deleted successfully"]]

----------------------------------------------------------------------------
(* Requests explored *)

EmailA == <<"a", "@", "x", ".", "y">>
EmailB == <<"b", "@", "x", ".", "y">>
EmailBad == <<"a", "@", "x">>
Pw1 == <<"s", "e", "c", "r", "e", "t">>
Pw2 == <<"h", "u", "n", "t", "e", "r">>
PwShort == <<"s", "e", "c", "r", "e">>
NameN == <<"N">>

SignupBody(e, pw, n) == [email |-> e, password |-> pw, name |-> n]

SignupBodies ==
    {SignupBody(EmailA, Pw1, NameN), SignupBody(EmailA, Pw2, NameN),
     SignupBody(EmailB, Pw2, NameN), SignupBody(EmailBad, Pw1, NameN),
     SignupBody(EmailA, PwShort, NameN), SignupBody(EmailB, Pw1, Undef),
     SignupBody(Undef, Pw1, NameN), SignupBody(EmailB, <<>>, NameN)}

LoginBody(e, pw) == [email |-> e, password |-> pw]

LoginBodies ==
    {LoginBody(e, pw) : e \in {EmailA, EmailB}, pw \in {Pw1, Pw2}}
        \cup {LoginBody(Undef, Pw1), LoginBody(EmailA, <<>>)}

TaskBody(t, d, p, due, st) ==
    [title |-> t, description |-> d, priority |-> p, dueDate |-> due,
     status |-> st]

\* every field set, white space around title and description, a date-only
\* due date as the form's date input produces it
BodyPadded ==
    TaskBody(<<" ", "t", " ">>, <<"d", " ">>, "low", "2025-01-15",
             "in_progress")

BodyTitleOnly == TaskBody(<<"u">>, Undef, UndefS, UndefS, UndefS)

\* priority, dueDate and status sent as empty strings
BodyEmptyStrings == TaskBody(<<"u">>, Undef, "", "", "")

\* a title and, besides the fields the handlers read, a userId naming the
\* second user as owner
BodyForeignOwner == BodyTitleOnly @@ [userId |-> 2]

\* the bodies that pass the handlers' validation
ValidTaskBodies ==
    {BodyPadded, BodyTitleOnly, BodyEmptyStrings, BodyForeignOwner}

InvalidTaskBodies ==
    {TaskBody(Undef, Undef, UndefS, UndefS, UndefS),
     TaskBody(<<" ">>, <<"d">>, "low", UndefS, UndefS),
     TaskBody(<<"t">>, Undef, "urgent", UndefS, UndefS),
     TaskBody(<<"t">>, Undef, UndefS, UndefS, "done"),
     TaskBody(<<"t">>, Undef, UndefS, "soon", UndefS),
     TaskBody(NotAString, Undef, UndefS, UndefS, UndefS),
     TaskBody(<<"t">>, NotAString, UndefS, UndefS, UndefS)}

TaskBodies == ValidTaskBodies \cup InvalidTaskBodies

IdParams == {<<"1">>, <<"2">>, <<"1", "x">>, <<"x">>}

\* a token signed with another key, and one with no signature at all
BadSigs == {"forged", "none"}

\* what a client can put in the Authorization header: nothing, garbage, a
\* token it was issued, or a token it signed itself
Auths ==
    {NoAuth, Malformed}
        \cup {Bearer(i.token) : i \in issued}
        \cup {Bearer([i.token EXCEPT !.sig = sg]) : i \in issued, sg \in BadSigs}

----------------------------------------------------------------------------
(* Browser client: localStorage, the axios interceptors, AuthProvider *)

\* localStorage item user when there is none
NoStoredUser == [set |-> FALSE, json |-> [id |-> 0, email |-> Undef,
                                          name |-> Undef]]

\* JSON.stringify(data.user), the text kept in item user
JSONstringify(u) == [set |-> TRUE, json |-> u]

\* localStorage with neither item
NoStorage == [token |-> NoToken, user |-> NoStoredUser]

\* the response interceptor clearing the items on 401 only
responseInterceptorOnly401(st, status) ==
    IF status = 401 THEN NoStorage ELSE st

\* api.interceptors.response: localStorage after a response of that status
responseInterceptor(st, status) ==
    IF status = 401 \/ status = 403 THEN NoStorage ELSE st

\* api.interceptors.request: the Authorization header of a request
requestInterceptor(st) ==
    IF st.token # NoToken THEN Bearer(st.token) ELSE NoAuth

\* AuthProvider.login after loginAPI resolved with data
loginResolved(data) ==
    [token |-> data.token, user |-> JSONstringify(data.user)]

\* AuthProvider.logout
logout == NoStorage

\* AuthProvider's state token when the provider mounts with localStorage st
AuthProviderInit(st) == st.token

\* the context value isAuthenticated: !!token of the React state
isAuthenticated(token) == token # NoToken

\* a response on its way to the browser: the call that awaits it (login,
\* signup, or another API function), its status, the token and user of its
\* body if it has them, and the email and password the caller holds
Message(call, status, token, user, email, password) ==
    [call |-> call, status |-> status, token |-> token, user |-> user,
     email |-> email, password |-> password]

\* axios resolves on a 2xx status and rejects otherwise
Resolves(status) == status \in 200..299

----------------------------------------------------------------------------
(* State machine *)

\* what a step did to its request: the route, the Authorization header it
\* carried (on arrival), whether the route's handler was entered, the caller
\* id and task id the handler worked with, and the response sent (status 0:
\* none yet, the handler awaits the store)
Outcome(op, auth, entered, caller, taskId, status, body) ==
    [op |-> op, auth |-> auth, entered |-> entered, caller |-> caller,
     taskId |-> taskId, status |-> status, body |-> body]

NoOutcome == Outcome("", NoAuth, FALSE, 0, 0, 0, ErrBody(""))

\* the outcome of the step that resumes the handler of pending request p
Done(p, status, body) ==
    Outcome(p.op, NoAuth, TRUE, p.userId, p.taskId, status, body)

Init ==
    /\ users = {}
    /\ tasks = {}
    /\ nextTaskId = 1
    /\ clock = 0
    /\ issued = {}
    /\ pending = EmptyBag
    /\ accounts = {}
    /\ last = NoOutcome
    /\ storage = NoStorage
    /\ inbox = EmptyBag
    /\ session = NoToken
    /\ tokenState = AuthProviderInit(storage)
    /\ navigating = FALSE
    /\ page = "off"
    /\ tasksState = <<>>
    /\ handlers = EmptyBag
    /\ clean = TRUE

PendingOf(op) == {p \in BagToSet(pending) : p.op = op}

Take(p) == pending (-) SetToBag({p})

\* a request arrives and the middleware of its route answers it: the handler
\* is not called
Reject(op, auth) ==
    LET g == runMiddleware(op, auth, clock) IN
    /\ ~g.ok
    /\ last' = Outcome(op, auth, FALSE, 0, 0, g.status, ErrBody(g.error))
    /\ UNCHANGED <<client, users, tasks, nextTaskId, clock, issued, pending,
                   accounts>>

\* a request arrives and the middleware of its route calls the handler, which
\* runs up to its first await (h is that part's result under the req.user
\* the middleware set)
Serve(op, auth, h) ==
    /\ runMiddleware(op, auth, clock).ok
    /\ IF h.reply
       THEN /\ last' = Outcome(op, auth, TRUE, 0, 0, h.status, h.body)
            /\ pending' = pending
       ELSE /\ last' = Outcome(op, auth, TRUE, h.entry.userId,
                               h.entry.taskId, 0, ErrBody(""))
            /\ pending' = pending (+) SetToBag({h.entry})
    /\ UNCHANGED <<client, users, tasks, nextTaskId, clock, issued, accounts>>

ReqUser(op, auth) == runMiddleware(op, auth, clock).user

RecvSignup(body) == Serve("signup", NoAuth, signupSync(body))

DoSignup(p) ==
    /\ p \in PendingOf("signup")
    /\ LET r == signupDone(p, users, clock) IN
       /\ users' = r.users
       /\ accounts' = IF r.status = 201
                      THEN accounts \cup {[id |-> r.body.user.id,
                                           email |-> p.email,
                                           password |-> p.password,
                                           name |-> p.name]}
                      ELSE accounts
       /\ last' = Done(p, r.status, r.body)
    /\ pending' = Take(p)
    /\ UNCHANGED <<client, tasks, nextTaskId, clock, issued>>

RecvLogin(body) ==
    /\ Cardinality(issued) + Cardinality(PendingOf("login")) < MaxTokens
    /\ Serve("login", NoAuth, loginSync(body))

DoLogin(p) ==
    /\ p \in PendingOf("login")
    /\ LET r == loginDone(p, users, clock) IN
       /\ issued' = IF r.ok
                    THEN issued \cup {[token |-> r.token, holder |-> r.holder]}
                    ELSE issued
       /\ last' = Done(p, r.status, r.body)
    /\ pending' = Take(p)
    /\ UNCHANGED <<client, users, tasks, nextTaskId, clock, accounts>>

RecvMe(auth) == Serve("me", auth, getCurrentUserSync(ReqUser("me", auth)))

DoMe(p) ==
    /\ p \in PendingOf("me")
    /\ LET r == getCurrentUserDone(p, users) IN
       last' = Done(p, r.status, r.body)
    /\ pending' = Take(p)
    /\ UNCHANGED <<client, users, tasks, nextTaskId, clock, issued, accounts>>

RecvList(auth) == Serve("list", auth, getAllTasksSync(ReqUser("list", auth)))

DoList(p) ==
    /\ p \in PendingOf("list")
    /\ \E rows \in orderByCreatedDesc(getTasksByUserId(tasks, p.userId)) :
         LET r == getAllTasksDone(rows) IN
         last' = Done(p, r.status, r.body)
    /\ pending' = Take(p)
    /\ UNCHANGED <<client, users, tasks, nextTaskId, clock, issued, accounts>>

RecvGet(auth, idParam) ==
    Serve("get", auth, getTaskSync(ReqUser("get", auth), idParam))

DoGet(p) ==
    /\ p \in PendingOf("get")
    /\ LET r == getTaskDone(p, tasks) IN
       last' = Done(p, r.status, r.body)
    /\ pending' = Take(p)
    /\ UNCHANGED <<client, users, tasks, nextTaskId, clock, issued, accounts>>

RecvCreate(auth, body) ==
    /\ nextTaskId + Cardinality(PendingOf("create")) <= MaxTaskId
    /\ Serve("create", auth, createSync(ReqUser("create", auth), body))

DoCreate(p) ==
    /\ p \in PendingOf("create")
    /\ LET r == createDone(p, tasks, nextTaskId, clock) IN
       /\ tasks' = r.tasks
       /\ last' = Done(p, r.status, r.body)
    /\ nextTaskId' = nextTaskId + 1
    /\ pending' = Take(p)
    /\ UNCHANGED <<client, users, clock, issued, accounts>>

RecvUpdate(auth, idParam, body) ==
    Serve("update", auth, updateSync(ReqUser("update", auth), idParam, body))

DoUpdate(p) ==
    /\ p \in PendingOf("update")
    /\ LET r == updateDone(p, tasks, clock) IN
       /\ tasks' = r.tasks
       /\ last' = Done(p, r.status, r.body)
    /\ pending' = Take(p)
    /\ UNCHANGED <<client, users, nextTaskId, clock, issued, accounts>>

RecvDelete(auth, idParam) ==
    Serve("delete", auth, removeSync(ReqUser("delete", auth), idParam))

DoDelete(p) ==
    /\ p \in PendingOf("delete")
    /\ LET r == removeDone(p, tasks) IN
       /\ tasks' = r.tasks
       /\ last' = Done(p, r.status, r.body)
    /\ pending' = Take(p)
    /\ UNCHANGED <<client, users, nextTaskId, clock, issued, accounts>>

\* time passes
Tick(d) ==
    /\ clock + d <= MaxClock
    /\ clock' = clock + d
    /\ last' = NoOutcome
    /\ UNCHANGED <<client, users, tasks, nextTaskId, issued, pending,
                   accounts>>

\* requests arrive one at a time
Idle == pending = EmptyBag

Ops == {"signup", "login", "me", "list", "get", "create", "update", "delete"}

Next ==
    \/ Idle /\ \E op \in Ops : \E a \in Auths : Reject(op, a)
    \/ Idle /\ \E b \in SignupBodies : RecvSignup(b)
    \/ \E p \in BagToSet(pending) : DoSignup(p)
    \/ Idle /\ \E b \in LoginBodies : RecvLogin(b)
    \/ \E p \in BagToSet(pending) : DoLogin(p)
    \/ Idle /\ \E a \in Auths : RecvMe(a)
    \/ \E p \in BagToSet(pending) : DoMe(p)
    \/ Idle /\ \E a \in Auths : RecvList(a)
    \/ \E p \in BagToSet(pending) : DoList(p)
    \/ Idle /\ \E a \in Auths : \E i \in IdParams : RecvGet(a, i)
    \/ \E p \in BagToSet(pending) : DoGet(p)
    \/ Idle /\ \E a \in Auths : \E b \in TaskBodies : RecvCreate(a, b)
    \/ \E p \in BagToSet(pending) : DoCreate(p)
    \/ Idle /\ \E a \in Auths : \E i \in IdParams : \E b \in TaskBodies :
         RecvUpdate(a, i, b)
    \/ \E p \in BagToSet(pending) : DoUpdate(p)
    \/ Idle /\ \E a \in Auths : \E i \in IdParams : RecvDelete(a, i)
    \/ \E p \in BagToSet(pending) : DoDelete(p)

Spec == Init /\ [][Next]_vars

(* The token gate over time: requests arrive one at a time on days 0, 6 and *)
(* 7, so that a token is presented fresh, aged and expired, and tasks are   *)
(* created and updated on different days.                                   *)

TickSteps == {TokenTTL - 1, TokenTTL}

NextAuth ==
    \/ Idle /\ \E op \in Ops : \E a \in Auths : Reject(op, a)
    \/ Idle /\ \E b \in {SignupBody(EmailA, Pw1, NameN),
                          SignupBody(EmailB, Pw2, NameN),
                          SignupBody(EmailA, PwShort, NameN)} : RecvSignup(b)
    \/ \E p \in BagToSet(pending) : DoSignup(p)
    \/ Idle /\ \E b \in LoginBodies : RecvLogin(b)
    \/ \E p \in BagToSet(pending) : DoLogin(p)
    \/ Idle /\ \E a \in Auths : RecvMe(a)
    \/ \E p \in BagToSet(pending) : DoMe(p)
    \/ Idle /\ \E a \in Auths : RecvList(a)
    \/ \E p \in BagToSet(pending) : DoList(p)
    \/ Idle /\ \E a \in Auths : RecvGet(a, <<"1">>)
    \/ \E p \in BagToSet(pending) : DoGet(p)
    \/ Idle /\ \E a \in Auths :
         \E b \in InvalidTaskBodies \cup {BodyTitleOnly} : RecvCreate(a, b)
    \/ \E p \in BagToSet(pending) : DoCreate(p)
    \/ Idle /\ \E a \in Auths : RecvUpdate(a, <<"1">>, BodyTitleOnly)
    \/ \E p \in BagToSet(pending) : DoUpdate(p)
    \/ Idle /\ \E a \in Auths : RecvDelete(a, <<"1">>)
    \/ \E p \in BagToSet(pending) : DoDelete(p)
    \/ \E d \in TickSteps : Tick(d)

SpecAuth == Init /\ [][NextAuth]_vars

(* Concurrent signups and logins: up to MaxInflight handlers wait for the   *)
(* store at once and their statements run in any order.                     *)

CanAccept == BagCardinality(pending) < MaxInflight

NextRace ==
    \/ CanAccept /\ \E b \in SignupBodies : RecvSignup(b)
    \/ \E p \in BagToSet(pending) : DoSignup(p)
    \/ CanAccept /\ \E b \in LoginBodies : RecvLogin(b)
    \/ \E p \in BagToSet(pending) : DoLogin(p)

SpecRace == Init /\ [][NextRace]_vars

(* Store failures: requests arrive one at a time and the statement of the  *)
(* waiting handler either runs or is rejected by the store with an error.   *)

\* SQLSTATE codes of failures other than the unique violation: connection
\* failure, administrator shutdown
StoreFaults == {"08006", "57P01"}

\* the catch block answering with the error it caught
handlerCatchLeaky(p, code) ==
    [status |-> 500, body |-> ErrBody(code)]

\* the response of the catch block of each handler
catchMessage(op) ==
    CASE op = "signup" -> "Server error during signup"
      [] op = "login" -> "Server error during login"
      [] op = "me" -> "Server error fetching user"
      [] op = "list" -> "Server error fetching tasks"
      [] op = "get" -> "Server error fetching task"
      [] op = "create" -> "Server error creating task"
      [] op = "update" -> "Server error updating task"
      [] op = "delete" -> "Server error deleting task"

\* the catch block of the handler of pending request p when pool.query
\* rejects with SQLSTATE code: signup tests the message of the error that
\* createUser threw, every handler answers 500 with its own message
handlerCatch(p, code) ==
    IF p.op = "signup" /\ createUserError(code) = "Email already exists"
    THEN [status |-> 409, body |-> ErrBody("Email already exists")]
    ELSE [status |-> 500, body |-> ErrBody(catchMessage(p.op))]

\* the statement of pending request p fails: the await throws, the catch
\* block answers, and the handler returns
StoreFails(p, code) ==
    /\ p \in BagToSet(pending)
    /\ LET r == handlerCatch(p, code) IN
       last' = Done(p, r.status, r.body)
    /\ pending' = Take(p)
    /\ UNCHANGED <<client, users, tasks, nextTaskId, clock, issued, accounts>>

NextFault ==
    \/ Next
    \/ \E p \in BagToSet(pending) : \E code \in StoreFaults :
         StoreFails(p, code)

SpecFault == Init /\ [][NextFault]_vars

(* Concurrent task requests: two users sign up and log in one request at   *)
(* a time, after which up to MaxInflight task handlers wait for the store   *)
(* at once and their statements run in any order.                           *)

NextTaskRace ==
    \/ Idle /\ \E b \in {SignupBody(EmailA, Pw1, NameN),
                          SignupBody(EmailB, Pw2, NameN)} : RecvSignup(b)
    \/ \E p \in BagToSet(pending) : DoSignup(p)
    \/ Idle /\ \E b \in {LoginBody(EmailA, Pw1), LoginBody(EmailB, Pw2)} :
         RecvLogin(b)
    \/ \E p \in BagToSet(pending) : DoLogin(p)
    \/ CanAccept /\ \E i \in issued : RecvList(Bearer(i.token))
    \/ \E p \in BagToSet(pending) : DoList(p)
    \/ CanAccept /\ \E i \in issued : RecvGet(Bearer(i.token), <<"1">>)
    \/ \E p \in BagToSet(pending) : DoGet(p)
    \/ CanAccept /\ \E i \in issued :
         RecvCreate(Bearer(i.token), BodyTitleOnly)
    \/ \E p \in BagToSet(pending) : DoCreate(p)
    \/ CanAccept /\ \E i \in issued :
         RecvUpdate(Bearer(i.token), <<"1">>, BodyPadded)
    \/ \E p \in BagToSet(pending) : DoUpdate(p)
    \/ CanAccept /\ \E i \in issued : RecvDelete(Bearer(i.token), <<"1">>)
    \/ \E p \in BagToSet(pending) : DoDelete(p)

SpecTaskRace == Init /\ [][NextTaskRace]_vars

(* The browser: AuthProvider and the API functions send requests through  *)
(* the request interceptor, the server answers each request whole, and the  *)
(* response reaches the response interceptor and the awaiting function some *)
(* time later, in any order with other responses and with logout.           *)

\* the server's answer to POST /api/auth/signup
AnswerSignup(b, us) ==
    LET h == signupSync(b)
        r == signupDone(h.entry, us, clock)
    IN IF h.reply
       THEN [status |-> h.status, body |-> h.body, users |-> us]
       ELSE [status |-> r.status, body |-> r.body, users |-> r.users]

\* the server's answer to POST /api/auth/login
AnswerLogin(b, us) ==
    LET h == loginSync(b)
        r == loginDone(h.entry, us, clock)
    IN IF h.reply
       THEN [status |-> h.status, body |-> h.body, ok |-> FALSE,
             token |-> NoToken, holder |-> 0]
       ELSE [status |-> r.status, body |-> r.body, ok |-> r.ok,
             token |-> r.token, holder |-> r.holder]

\* the server's answer to GET /api/users/me
AnswerMe(auth, us) ==
    LET g == runMiddleware("me", auth, clock)
        h == getCurrentUserSync(g.user)
        r == getCurrentUserDone(h.entry, us)
    IN IF ~g.ok THEN [status |-> g.status, body |-> ErrBody(g.error)]
       ELSE IF h.reply THEN [status |-> h.status, body |-> h.body]
       ELSE [status |-> r.status, body |-> r.body]

\* AuthProvider.signup up to await signupAPI
ClientSignup(b) ==
    /\ BagCardinality(inbox) < MaxInbox
    /\ LET hdr == requestInterceptor(storage)
           r == AnswerSignup(b, users)
       IN /\ users' = r.users
          /\ accounts' = IF r.status = 201
                         THEN accounts \cup {[id |-> r.body.user.id,
                                              email |-> b.email,
                                              password |-> b.password,
                                              name |-> b.name]}
                         ELSE accounts
          /\ last' = Outcome("signup", hdr, TRUE, 0, 0, r.status, r.body)
          /\ inbox' = inbox (+) SetToBag({Message("signup", r.status, NoToken,
                                                 NoStoredUser.json, b.email,
                                                 b.password)})
    /\ UNCHANGED <<tasks, nextTaskId, clock, issued, pending, storage,
                   session, tokenState, navigating, tasksPage>>

\* AuthProvider.login up to await loginAPI, with box the responses still on
\* their way
LoginCall(b, box) ==
    /\ LET hdr == requestInterceptor(storage)
           r == AnswerLogin(b, users)
       IN /\ issued' = IF r.ok
                       THEN issued \cup {[token |-> r.token,
                                          holder |-> r.holder]}
                       ELSE issued
          /\ last' = Outcome("login", hdr, TRUE, 0, 0, r.status, r.body)
          /\ inbox' = box (+) SetToBag({Message("login", r.status, r.token,
                                               IF r.ok THEN r.body.user
                                               ELSE NoStoredUser.json,
                                               b.email, b.password)})
    /\ UNCHANGED <<users, tasks, nextTaskId, clock, pending, accounts,
                   storage, session, tokenState, navigating, tasksPage>>

ClientLogin(b) ==
    /\ BagCardinality(inbox) < MaxInbox
    /\ LoginCall(b, inbox)

\* getCurrentUser of services/api.js up to await api.get
ClientMe ==
    /\ BagCardinality(inbox) < MaxInbox
    /\ LET hdr == requestInterceptor(storage)
           r == AnswerMe(hdr, users)
       IN /\ last' = Outcome("me", hdr, runMiddleware("me", hdr, clock).ok,
                             0, 0, r.status, r.body)
          /\ inbox' = inbox (+) SetToBag({Message("me", r.status, NoToken,
                                                 NoStoredUser.json, Undef,
                                                 Undef)})
    /\ UNCHANGED <<users, tasks, nextTaskId, clock, issued, pending,
                   accounts, storage, session, tokenState, navigating,
                   tasksPage>>

\* the outcome of a step in which the browser handles a response
Handled(m) == Outcome("response", NoAuth, FALSE, 0, 0, m.status, ErrBody(""))

\* response m arrives: the response interceptor runs (on 401 / 403 it also
\* assigns window.location.href), then the function that awaits it goes on
\* (login sets the state token and stores the token and the user, signup
\* calls login, everything else only reports to its caller)
Deliver(m) ==
    /\ m \in BagToSet(inbox)
    /\ IF m.call = "signup" /\ Resolves(m.status)
       THEN LoginCall(LoginBody(m.email, m.password),
                      inbox (-) SetToBag({m}))
       ELSE /\ storage' = IF m.call = "login" /\ Resolves(m.status)
                          THEN loginResolved(m)
                          ELSE responseInterceptor(storage, m.status)
            /\ session' = IF m.call = "login" /\ m.status = 200
                          THEN m.token
                          ELSE IF m.status \in {401, 403}
                          THEN NoToken ELSE session
            /\ tokenState' = IF m.call = "login" /\ Resolves(m.status)
                             THEN m.token ELSE tokenState
            /\ navigating' = (navigating \/ m.status \in {401, 403})
            /\ inbox' = inbox (-) SetToBag({m})
            /\ last' = Handled(m)
            /\ UNCHANGED <<users, tasks, nextTaskId, clock, issued, pending,
                           accounts, tasksPage>>

\* the user clicks Logout
Logout ==
    /\ storage' = logout
    /\ session' = NoToken
    /\ tokenState' = NoToken
    /\ last' = Outcome("logout", NoAuth, FALSE, 0, 0, 0, ErrBody(""))
    /\ UNCHANGED <<users, tasks, nextTaskId, clock, issued, pending,
                   accounts, inbox, navigating, tasksPage>>

\* the document assigned to window.location.href loads: the functions of the
\* old document that await a response are gone, AuthProvider mounts again
\* and reads its state from localStorage
PageLoad ==
    /\ navigating
    /\ navigating' = FALSE
    /\ tokenState' = AuthProviderInit(storage)
    /\ inbox' = EmptyBag
    /\ last' = Outcome("load", NoAuth, FALSE, 0, 0, 0, ErrBody(""))
    /\ UNCHANGED <<users, tasks, nextTaskId, clock, issued, pending,
                   accounts, storage, session, tasksPage>>

ClientSignups ==
    {SignupBody(EmailA, Pw1, NameN), SignupBody(EmailA, PwShort, NameN)}

ClientLogins == {LoginBody(EmailA, Pw1), LoginBody(EmailA, Pw2)}

NextClient ==
    \/ \E b \in ClientSignups : ClientSignup(b)
    \/ \E b \in ClientLogins : ClientLogin(b)
    \/ ClientMe
    \/ \E m \in BagToSet(inbox) : Deliver(m)
    \/ Logout
    \/ PageLoad
    \/ \E d \in TickSteps : Tick(d)

SpecClient == Init /\ [][NextClient]_vars

----------------------------------------------------------------------------
(* Properties *)

\* task id of pending request p exists under an owner other than its caller
Foreign(p) == \E t \in tasks : t.id = p.taskId /\ t.user_id # p.userId

\* C1: a get, update or delete by caller A on a task id owned by another user
\* is answered 404 "Task not found" and leaves the tasks table as it was, and
\* every task in the answer to A's list is owned by A.
C1_OwnerIsolation ==
    [][\A p \in BagToSet(pending) :
          /\ (DoGet(p) \/ DoUpdate(p) \/ DoDelete(p)) /\ Foreign(p)
                => /\ last'.status = 404
                   /\ last'.body = ErrBody("Task not found")
                   /\ tasks' = tasks
          /\ DoList(p)
                => \A i \in DOMAIN last'.body.tasks :
                      /\ last'.body.tasks[i].userId = p.userId
                      /\ \E t \in tasks : /\ t.id = last'.body.tasks[i].id
                                          /\ t.user_id = p.userId]_vars

\* an update of another user's task has just been answered, while the caller
\* has a task of its own
C1_Witness ==
    /\ last.op = "update"
    /\ last.status = 404
    /\ \E t \in tasks : t.id = last.taskId /\ t.user_id # last.caller
    /\ \E t \in tasks : t.user_id = last.caller

\* the response to a get / update / delete request were the tasks table ts
AnswerGet(auth, idParam, ts) ==
    LET g == runMiddleware("get", auth, clock)
        h == getTaskSync(g.user, idParam)
        r == getTaskDone(h.entry, ts)
    IN IF ~g.ok THEN [status |-> g.status, body |-> ErrBody(g.error)]
       ELSE IF h.reply THEN [status |-> h.status, body |-> h.body]
       ELSE [status |-> r.status, body |-> r.body]

AnswerUpdate(auth, idParam, reqBody, ts) ==
    LET g == runMiddleware("update", auth, clock)
        h == updateSync(g.user, idParam, reqBody)
        r == updateDone(h.entry, ts, clock)
    IN IF ~g.ok THEN [status |-> g.status, body |-> ErrBody(g.error)]
       ELSE IF h.reply THEN [status |-> h.status, body |-> h.body]
       ELSE [status |-> r.status, body |-> r.body]

AnswerDelete(auth, idParam, ts) ==
    LET g == runMiddleware("delete", auth, clock)
        h == removeSync(g.user, idParam)
        r == removeDone(h.entry, ts)
    IN IF ~g.ok THEN [status |-> g.status, body |-> ErrBody(g.error)]
       ELSE IF h.reply THEN [status |-> h.status, body |-> h.body]
       ELSE [status |-> r.status, body |-> r.body]

\* auth does not authenticate the owner of task t
NotOwner(auth, t) ==
    LET g == authenticateToken(auth, clock) IN
    ~(g.ok /\ g.user.userId = t.user_id)

\* C2: for a task T and a caller who is not its owner, a get, update or
\* delete on T's id gets the same status and body whether the store holds T
\* or not.
C2_NoExistenceLeak ==
    \A t \in tasks : \A a \in Auths : \A i \in IdParams :
        NotOwner(a, t) /\ ~parseInt(i).nan /\ parseInt(i).val = t.id
            => /\ AnswerGet(a, i, tasks) = AnswerGet(a, i, tasks \ {t})
               /\ AnswerDelete(a, i, tasks) = AnswerDelete(a, i, tasks \ {t})
               /\ \A b \in TaskBodies :
                     AnswerUpdate(a, i, b, tasks)
                        = AnswerUpdate(a, i, b, tasks \ {t})

\* a get of another user's task has just been answered
C2_Witness ==
    /\ last.op = "get"
    /\ last.status = 404
    /\ last.caller \in {u.id : u \in users}
    /\ \E t \in tasks : t.id = last.taskId /\ t.user_id # last.caller

\* the step is the arrival of a request with Authorization header a on one
\* of the six protected routes
RecvProtected(a) ==
    \/ \E op \in {"me", "list", "get", "create", "update", "delete"} :
          Reject(op, a)
    \/ last'.op = "me" /\ RecvMe(a)
    \/ last'.op = "list" /\ RecvList(a)
    \/ last'.op = "get" /\ \E i \in IdParams : RecvGet(a, i)
    \/ last'.op = "create" /\ \E b \in TaskBodies : RecvCreate(a, b)
    \/ last'.op = "update"
          /\ \E i \in IdParams : \E b \in TaskBodies : RecvUpdate(a, i, b)
    \/ last'.op = "delete" /\ \E i \in IdParams : RecvDelete(a, i)

\* C3: when a request arrives on a protected route and the verification of
\* its token fails, it is answered 401 or 403 by the gate, the route's
\* handler is not entered, no handler is left waiting for the store, and the
\* users and tasks tables are unchanged.
C3_GateBeforeHandler ==
    [][\A a \in {last'.auth} :
          RecvProtected(a) /\ ~authenticateToken(a, clock).ok
             => /\ ~last'.entered
                /\ last'.status \in {401, 403}
                /\ pending' = pending
                /\ users' = users
                /\ tasks' = tasks
                /\ nextTaskId' = nextTaskId]_vars

\* an update carrying an issued token that has expired was just turned away
C3_Witness ==
    /\ last.op = "update"
    /\ ~last.entered
    /\ last.status = 403
    /\ last.auth.kind = "bearer"
    /\ \E i \in issued : i.token = last.auth.token
    /\ clock >= last.auth.token.exp

\* C4: the handler of a protected route is entered only for a request whose
\* token a successful login issued less than 7 days ago, and the caller id
\* the handler then works with is the id of the user that login was for.
C4_FailClosed ==
    [][\A a \in {last'.auth} :
          RecvProtected(a) /\ last'.entered
             => /\ a.kind = "bearer"
                /\ \E i \in issued :
                      /\ i.token = a.token
                      /\ clock < i.token.iat + 7
                      /\ last'.status = 0 => last'.caller = i.holder]_vars

\* a token issued six days ago has just been accepted on GET /api/users/me
C4_Witness ==
    /\ last.op = "me"
    /\ last.entered
    /\ last.auth.kind = "bearer"
    /\ clock = last.auth.token.iat + 6
    /\ last.caller \in {u.id : u \in users}
    /\ \E i \in issued : i.token = last.auth.token /\ i.holder = last.caller

\* pending signup p asks for an email that a row already holds
Taken(p) == \E u \in users : u.email = p.email

\* C5: a signup that passed validation and whose email is already registered
\* is answered 409 "Email already exists" and leaves the users table as it
\* was.
C5_DuplicateSignup ==
    [][\A p \in BagToSet(pending) :
          DoSignup(p) /\ Taken(p)
             => /\ last'.status = 409
                /\ last'.body = ErrBody("Email already exists")
                /\ users' = users]_vars

\* a signup for the one registered email has just been answered 409
C5_Witness ==
    /\ last.op = "signup"
    /\ last.status = 409
    /\ Cardinality(users) = 1
    /\ Cardinality(accounts) = 1

UniqueEmails == \A u \in users : \A v \in users : u.email = v.email => u = v

OneAccountPerEmail ==
    \A a \in accounts : \A b \in accounts : a.email = b.email => a = b

\* C6: with signups in flight together, no two user rows ever share an email
\* and no email is answered 201 twice; the signup whose insert comes first is
\* answered 201 and adds one row, and every other signup for that email,
\* also one already waiting, is answered 409 and adds none.
C6_SignupRace ==
    /\ [](UniqueEmails /\ OneAccountPerEmail)
    /\ [][\A p \in BagToSet(pending) :
             DoSignup(p)
                => /\ Taken(p) => last'.status = 409 /\ users' = users
                   /\ ~Taken(p)
                         => /\ last'.status = 201
                            /\ Cardinality(users') = Cardinality(users) + 1
                            /\ \E u \in users' \ users : u.email = p.email
                   /\ \A q \in BagToSet(pending') :
                         q.op = "signup" /\ q.email = p.email
                            => signupDone(q, users', clock').status = 409]_vars

\* one signup has just been answered 201 while another for the same email,
\* received before that insert, still waits for the store
C6_Witness ==
    /\ last.op = "signup"
    /\ last.status = 201
    /\ \E q \in PendingOf("signup") : q.email = last.body.user.email

\* the handler state of a login with these credentials that passed validation
LoginEntry(e, pw) == loginSync(LoginBody(e, pw)).entry

\* C7: a login with an unknown email and a login with a registered email and
\* a wrong password get the same status, 401, and the same body.
C7_LoginIndistinguishable ==
    \A e1 \in {EmailA, EmailB} : \A e2 \in {EmailA, EmailB} :
    \A pw1 \in {Pw1, Pw2} : \A pw2 \in {Pw1, Pw2} :
        LET r1 == loginDone(LoginEntry(e1, pw1), users, clock)
            r2 == loginDone(LoginEntry(e2, pw2), users, clock)
        IN (/\ \A u \in users : u.email # e1
            /\ \E u \in users : /\ u.email = e2
                                /\ u.password_hash # bcryptHash(pw2))
              => /\ r1.status = 401
                 /\ r2.status = 401
                 /\ r1.body = r2.body

\* a login has just been refused while one of the two emails is registered
\* and the other is not
C7_Witness ==
    /\ last.op = "login"
    /\ last.status = 401
    /\ Cardinality({u.email : u \in users}) = 1

\* C8: in every state, for every signup that was answered 201, a login with
\* the email and password of that signup passes validation and is answered
\* 200 with a server-signed token and that user's id, email and name.
C8_LoginAfterSignup ==
    \A a \in accounts :
        LET h == loginSync(LoginBody(a.email, a.password))
            r == loginDone(h.entry, users, clock)
        IN /\ ~h.reply
           /\ r.status = 200
           /\ r.body.token = signToken([id |-> a.id, email |-> a.email], clock)
           /\ r.body.user = [id |-> a.id, email |-> a.email, name |-> a.name]

\* a login has just succeeded after both users signed up and a task was
\* created
C8_Witness ==
    /\ last.op = "login"
    /\ last.status = 200
    /\ Cardinality(accounts) = 2
    /\ tasks # {}

Hashes == {u.password_hash : u \in users}

\* a response body holds no password hash, neither as a field nor as a value
HashFree(b) ==
    /\ "password_hash" \notin DOMAIN b
    /\ "user" \in DOMAIN b
          => /\ "password_hash" \notin DOMAIN b.user
             /\ b.user.email \notin Hashes
             /\ b.user.name \notin Hashes
    /\ "token" \in DOMAIN b
          => /\ "password_hash" \notin DOMAIN b.token
             /\ b.token.email \notin Hashes

IdParamOf(n) == <<CHOOSE c \in Digits : DigitVal(c) = n>>

\* the task in the answer to a get of the id that a create of request body b
\* by the caller of header a has just returned, in the current state
CreateThenGet(a, b) ==
    LET user == runMiddleware("create", a, clock).user
        made == createDone(createSync(user, b).entry, tasks, nextTaskId, clock)
        got == getTaskDone(getTaskSync(user, IdParamOf(made.body.task.id)).entry,
                           made.tasks)
    IN [created |-> made.status, status |-> got.status, task |-> got.body.task]

\* a create request that passes validation with every field set
AllFieldsSet(b) ==
    /\ createValidation(b) = ""
    /\ ~Falsy(b.description)
    /\ ~FalsyS(b.priority)
    /\ ~FalsyS(b.status)
    /\ ~FalsyS(b.dueDate)

\* the request bodies of the round trip: those the clients send, one with a
\* description of white space only, one with nothing to trim and a full
\* timestamp as due date
RoundTripBodies ==
    TaskBodies
    \cup {TaskBody(<<"t">>, <<" ", " ">>, "high", "2025-01-15", "completed"),
          TaskBody(<<"t">>, <<"d">>, "medium", "2025-01-15T00:00:00.000Z",
                   "pending")}

\* the description column of a submitted description
StoredDescription(d) == IF Trim(d) = <<>> THEN Null ELSE Trim(d)

\* the ISO timestamp of a date the request can carry
IsoTimestampOf(d) ==
    CASE d = "2025-01-15" -> "2025-01-15T00:00:00.000Z"
      [] d = "2025-01-15T00:00:00.000Z" -> "2025-01-15T00:00:00.000Z"

PartialBodies ==
    {TaskBody(<<"v">>, d, p, due, st) :
        d \in {Undef, <<"e">>}, p \in {UndefS, "high"},
        due \in {UndefS, "2025-01-15"}, st \in {UndefS, "completed"}}

\* task t as it would be had its mutable fields held other values
OtherPriors(t) ==
    {[t EXCEPT !.title = <<"w">>, !.description = Null, !.priority = "medium",
               !.due_date = NullS, !.status = "pending"],
     [t EXCEPT !.title = <<"w">>, !.description = <<"f">>, !.priority = "low",
               !.due_date = "2025-01-15T00:00:00.000Z",
               !.status = "in_progress"]}

\* the tasks table after the owner of task t updates it with request body b,
\* had the table been ts
UpdatedBy(t, b, ts) ==
    LET h == updateSync([set |-> TRUE, userId |-> t.user_id,
                         email |-> Undef], IdParamOf(t.id), b)
    IN updateDone(h.entry, ts, clock)

\* C11: an update of an owned task with a valid request stores, for each
\* optional field the request omits, the default (description null, priority
\* medium, dueDate null, status pending), and the stored row is the same
\* whatever the task's mutable fields held before.
C11_UpdateFullReplace ==
    \A t \in tasks : \A b \in PartialBodies \cup ValidTaskBodies :
        LET r == UpdatedBy(t, b, tasks)
            row == CHOOSE x \in r.tasks : x.id = t.id
        IN /\ updateValidation(b) = ""
           /\ r.status = 200
           /\ r.body.task = taskJSON(row)
           /\ Falsy(b.description) => row.description = Null
           /\ FalsyS(b.priority) => row.priority = "medium"
           /\ FalsyS(b.dueDate) => row.due_date = NullS
           /\ FalsyS(b.status) => row.status = "pending"
           /\ \A t2 \in OtherPriors(t) :
                 UpdatedBy(t, b, (tasks \ {t}) \cup {t2}).tasks = r.tasks

\* an update that set the title only has just been answered with the
\* defaults in every other field, in a table where a task holds other values
C11_Witness ==
    /\ last.op = "update"
    /\ last.status = 200
    /\ last.body.task.description = Null
    /\ last.body.task.priority = "medium"
    /\ last.body.task.dueDate = NullS
    /\ last.body.task.status = "pending"
    /\ \E t \in tasks : /\ t.user_id = last.caller
                        /\ t.priority = "low"
                        /\ t.status = "in_progress"

\* the rows with the task id of pending request p that its caller owns
Owned(p) == {t \in tasks : t.id = p.taskId /\ t.user_id = p.userId}

\* C12: a delete of a task id that does not exist or that another user owns
\* is answered 404 and leaves the tasks table as it was; a delete of a task
\* the caller owns is answered 200 and removes that one row and no other,
\* and the same delete repeated is then answered 404 and changes nothing.
C12_DeleteFrame ==
    [][\A p \in BagToSet(pending) :
          DoDelete(p)
             => IF Owned(p) = {}
                THEN /\ last'.status = 404
                     /\ last'.body = ErrBody("Task not found")
                     /\ tasks' = tasks
                ELSE /\ last'.status = 200
                     /\ Cardinality(Owned(p)) = 1
                     /\ tasks' = tasks \ Owned(p)
                     /\ removeDone(p, tasks').status = 404
                     /\ removeDone(p, tasks').tasks = tasks']_vars

\* a delete of the caller's task has just been answered 200, and another
\* task of the caller is still stored
C12_Witness ==
    /\ last.op = "delete"
    /\ last.status = 200
    /\ ~\E t \in tasks : t.id = last.taskId
    /\ \E t \in tasks : t.user_id = last.caller

\* C13: the answer to a list request has status 200 and holds exactly the
\* tasks the caller owns, each once, a task created later before a task
\* created earlier, with count equal to the number of tasks in the answer;
\* for a caller who owns no task it is the empty sequence with count 0.
C13_ListExact ==
    [][\A p \in BagToSet(pending) :
          DoList(p)
             => LET own == {t \in tasks : t.user_id = p.userId}
                    out == last'.body.tasks
                IN /\ last'.status = 200
                   /\ last'.body.count = Len(out)
                   /\ Len(out) = Cardinality(own)
                   /\ {out[i] : i \in 1..Len(out)} = {taskJSON(t) : t \in own}
                   /\ \A i \in 1..Len(out) : \A j \in 1..Len(out) :
                         i < j => out[i].createdAt >= out[j].createdAt
                   /\ own = {} => out = <<>> /\ last'.body.count = 0]_vars

\* a list has just been answered with two tasks created on different days,
\* the later one first
C13_Witness ==
    /\ last.op = "list"
    /\ last.status = 200
    /\ last.body.count = 2
    /\ last.body.tasks[1].createdAt > last.body.tasks[2].createdAt

\* request body b carries a priority, status or dueDate that is not one of
\* the field's values
InvalidSupplied(b) ==
    \/ b.priority \notin {UndefS, "low", "medium", "high"}
    \/ b.status \notin {UndefS, "pending", "in_progress", "completed"}
    \/ b.dueDate # UndefS /\ isInvalidDate(b.dueDate)

\* C14: a create or update request that carries an invalid priority, status
\* or dueDate is answered 400 on arrival and nothing is handed to the store.
C14_InvalidRejected ==
    [][\A a \in {last'.auth} : \A b \in TaskBodies :
          /\ InvalidSupplied(b)
          /\ \/ RecvCreate(a, b)
             \/ \E i \in {<<"1">>, <<"2">>} : RecvUpdate(a, i, b)
          => /\ last'.status = 400
             /\ pending' = pending]_vars

\* request body b has no usable title: none, an empty or blank string, or a
\* value that is not a string
UnusableTitle(b) ==
    \/ Falsy(b.title)
    \/ b.title = NotAString
    \/ Trim(b.title) = <<>>

\* C15: a create or update request without a usable title is answered 400 on
\* arrival, nothing is handed to the store and no row changes.
C15_TitleRejected ==
    [][\A a \in {last'.auth} : \A b \in TaskBodies :
          /\ UnusableTitle(b)
          /\ \/ RecvCreate(a, b)
             \/ \E i \in {<<"1">>, <<"2">>} : RecvUpdate(a, i, b)
          => /\ last'.status = 400
             /\ pending' = pending
             /\ tasks' = tasks]_vars

\* C16: a create that passed validation is handed to the store with the user
\* id of the verified token as owner, whatever the request body holds; the
\* store statement adds exactly one row, owned by that user, with the next
\* id and with the defaults (description null, priority medium, dueDate
\* null, status pending) in the optional fields the request left out; the
\* answer is 201 with that row, and every row stored before is unchanged.
C16_CreateStoresOwned ==
    [][/\ \A a \in {last'.auth} :
             (/\ last'.op = "create"
              /\ last'.status = 0
              /\ \E b \in TaskBodies : RecvCreate(a, b))
                => /\ authenticateToken(a, clock).ok
                   /\ last'.caller = a.token.userId
                   /\ \E p \in BagToSet(pending') :
                         /\ pending' = pending (+) SetToBag({p})
                         /\ p.op = "create"
                         /\ p.userId = a.token.userId
       /\ \A p \in BagToSet(pending) :
             DoCreate(p)
                => \E row \in tasks' :
                      /\ row \notin tasks
                      /\ tasks' = tasks \cup {row}
                      /\ row.id = nextTaskId
                      /\ \A t \in tasks : t.id # row.id
                      /\ row.user_id = p.userId
                      /\ row.title = p.data.title
                      /\ Falsy(p.data.description) => row.description = Null
                      /\ FalsyS(p.data.priority) => row.priority = "medium"
                      /\ FalsyS(p.data.dueDate) => row.due_date = NullS
                      /\ FalsyS(p.data.status) => row.status = "pending"
                      /\ last'.status = 201
                      /\ last'.body.task = taskJSON(row)]_vars

\* a create that gave a title only has just been answered 201 with a task of
\* the caller holding the defaults, next to a task stored before
C16_Witness ==
    /\ last.op = "create"
    /\ last.status = 201
    /\ last.body.task.userId = last.caller
    /\ last.body.task.priority = "medium"
    /\ last.body.task.status = "pending"
    /\ last.body.task.dueDate = NullS
    /\ \E t \in tasks : t.id = last.body.task.id /\ t.user_id = last.caller
    /\ \E t \in tasks : t.id # last.body.task.id

\* e is local@domain.tld: no white space, one "@" with something before it,
\* and after it a "." with something on both sides
WellFormedEmail(e) ==
    /\ \A k \in 1..Len(e) : ~IsSpace(e[k])
    /\ Cardinality({k \in 1..Len(e) : e[k] = "@"}) = 1
    /\ \E i \in 2..Len(e) : \E j \in 1..(Len(e) - 1) :
          e[i] = "@" /\ e[j] = "." /\ i + 1 < j

\* signup request b lacks a field, has a malformed email or a password of
\* fewer than 6 characters
BadSignup(b) ==
    \/ b.email \in {Undef, Null, <<>>}
    \/ b.password \in {Undef, Null, <<>>}
    \/ b.name \in {Undef, Null, <<>>}
    \/ ~WellFormedEmail(b.email)
    \/ Len(b.password) <= 5

\* C17: a signup request that lacks email, password or name, has a malformed
\* email or a password of fewer than 6 characters is answered 400 on arrival
\* and never reaches the store, so no users row is created; every other
\* signup request, one with a password of exactly 6 characters included,
\* passes validation and is handed to the store.
C17_SignupValidation ==
    [][\A b \in SignupBodies :
          last'.op = "signup" /\ RecvSignup(b)
             => IF BadSignup(b)
                THEN /\ last'.status = 400
                     /\ pending' = pending
                     /\ users' = users
                ELSE /\ last'.status = 0
                     /\ pending' = pending (+) SetToBag(
                           {Entry("signup", 0, 0, b.email, b.password,
                                  b.name, NoData)})]_vars

\* a signup with a password of five characters has just been answered 400,
\* after a signup with a password of six characters created an account
C17_Witness ==
    /\ last.op = "signup"
    /\ last.status = 400
    /\ last.body = ErrBody("Password must be at least 6 characters")
    /\ \E ac \in accounts : Len(ac.password) = 6

\* path segment i is a number: one or more decimal digits
IsNumber(i) == i # <<>> /\ \A k \in 1..Len(i) : i[k] \in Digits

\* C18: a get, update or delete whose :id path segment is not a number is
\* answered 400 "Invalid task ID" on arrival and no store statement is
\* issued for it.
C18_NonNumericRejected ==
    [][\A a \in {last'.auth} : \A i \in IdParams :
          /\ ~IsNumber(i)
          /\ last'.op \in {"get", "update", "delete"}
          /\ \/ RecvGet(a, i)
             \/ RecvDelete(a, i)
             \/ \E b \in ValidTaskBodies : RecvUpdate(a, i, b)
          => /\ last'.status = 400
             /\ last'.body = ErrBody("Invalid task ID")
             /\ pending' = pending]_vars

\* the step sends a request
Sends == last'.op \in {"signup", "login", "me"}

\* C19: the items token and user of browser storage are set when, and only
\* when, the response of a successful login is handled (a successful signup
\* sends that login at once); both are removed by logout and by every
\* response with status 401 or 403; and a request carries an Authorization
\* header only if a login has succeeded with no logout and no 401 / 403
\* response since, the header then being the token of that login.
C19_SessionLifecycle ==
    [][/\ storage' # storage /\ storage' # NoStorage
          => \E m \in BagToSet(inbox) :
                /\ Deliver(m)
                /\ m.call = "login"
                /\ m.status = 200
       /\ storage' # storage /\ storage' = NoStorage
          => \/ Logout
             \/ \E m \in BagToSet(inbox) :
                   Deliver(m) /\ m.status \in {401, 403}
       /\ \A m \in BagToSet(inbox) :
             Deliver(m)
                => /\ m.call = "login" /\ m.status = 200
                      => /\ storage'.token = m.token
                         /\ storage'.token # NoToken
                         /\ storage'.user = JSONstringify(m.user)
                   /\ m.status \in {401, 403} => storage' = NoStorage
                   /\ m.call = "signup" /\ m.status = 201
                      => /\ last'.op = "login"
                         /\ \E n \in BagToSet(inbox') :
                               /\ inbox' = (inbox (-) SetToBag({m}))
                                               (+) SetToBag({n})
                               /\ n.call = "login"
                               /\ n.email = m.email
                               /\ n.password = m.password
       /\ Logout => storage' = NoStorage
       /\ Sends
          => last'.auth = IF session = NoToken
                          THEN NoAuth ELSE Bearer(session)]_vars

\* a 403 answer to a request that carried the stored token, now expired, has
\* just been handled: both items are gone
C19_Witness ==
    /\ last = Handled([status |-> 403])
    /\ storage = NoStorage
    /\ session = NoToken
    /\ clock >= TokenTTL
    /\ issued # {}

\* string s is not empty and has no white space at either end
TrimmedNonEmpty(s) ==
    /\ s \notin {Undef, Null, NotAString, <<>>}
    /\ ~IsSpace(s[1])
    /\ ~IsSpace(s[Len(s)])

\* the row is one the tasks table may hold
WellFormedTask(t) ==
    /\ TrimmedNonEmpty(t.title)
    /\ t.description = Null \/ TrimmedNonEmpty(t.description)
    /\ t.priority \in {"low", "medium", "high"}
    /\ t.status \in {"pending", "in_progress", "completed"}

\* C20: every row of the tasks table has a non-empty title with no white
\* space at either end, a description that is null or has no white space at
\* either end, a priority in {low, medium, high} and a status in {pending,
\* in_progress, completed}; and so has the row that any further valid create
\* or update would store.
C20_TaskRowsWellFormed ==
    /\ \A t \in tasks : WellFormedTask(t)
    /\ \A b \in (RoundTripBodies \ TaskBodies) \cup PartialBodies :
          createValidation(b) = ""
             => /\ \A t \in createTask(tasks, nextTaskId, 1, createTaskData(b),
                                       clock).tasks : WellFormedTask(t)
                /\ \A t \in tasks :
                      \A x \in UpdatedBy(t, b, tasks).tasks : WellFormedTask(x)

\* an update with white space around title and description has just been
\* stored, in a table that holds another task
C20_Witness ==
    /\ last.op = "update"
    /\ last.status = 200
    /\ last.body.task.title = <<"t">>
    /\ last.body.task.description = <<"d">>
    /\ \E t \in tasks : t.id # last.taskId

\* C21: user rows are only ever added: every row of table users is in the
\* table, with the same id, email, name and hash, after every later step;
\* and GET /api/users/me under a token the server issued and still accepts
\* is answered 200 with the user of that token, never 404
C21_UsersOnlyAdded ==
    [][ /\ users \subseteq users'
        /\ \A u \in users' \ users : \A v \in users : v.id # u.id
        /\ \A p \in PendingOf("me") :
             DoMe(p) => /\ last'.status = 200
                        /\ last'.body.user.id = p.userId
                        /\ \E u \in users :
                             /\ u.id = p.userId
                             /\ last'.body.user.email = u.email ]_vars

\* GET /api/users/me answered for the second of two users, on a later day
\* than the signup
C21_Witness ==
    /\ last.op = "me"
    /\ last.status = 200
    /\ last.body.user.id = 2
    /\ Cardinality(users) = 2
    /\ clock > last.body.user.createdAt

\* C22: a successful update sets updated_at of the row to the time of the
\* update and answers with it; over any step a row's created_at stays the
\* same and its updated_at does not decrease; updated_at is never earlier
\* than created_at
C22_UpdatedAtRefreshed ==
    [][ /\ \A p \in PendingOf("update") :
             (DoUpdate(p) /\ last'.status = 200)
             => \E t \in tasks' :
                  /\ t.id = p.taskId
                  /\ t.updated_at = clock
                  /\ last'.body.task.updatedAt = clock
        /\ \A t \in tasks : \A n \in tasks' :
             n.id = t.id => /\ n.created_at = t.created_at
                            /\ n.updated_at >= t.updated_at
        /\ \A n \in tasks' : n.updated_at >= n.created_at ]_vars

\* a task updated on a later day than the day it was created
C22_Witness ==
    /\ last.op = "update"
    /\ last.status = 200
    /\ \E t \in tasks : /\ t.id = last.taskId
                        /\ t.updated_at = clock
                        /\ t.updated_at > t.created_at

\* C23: an update answered 200 replaces the one row whose id is the id of
\* the request and whose owner is the caller by a row with the same id,
\* owner and created_at, and leaves every other row as it was; an update
\* answered 400 or 404 leaves table tasks as it was; no step changes the
\* owner of a row
C23_UpdateFrame ==
    [][ /\ \A p \in PendingOf("update") :
             (DoUpdate(p) /\ last'.status = 200)
             => \E t \in tasks : \E n \in tasks' :
                  /\ t.id = p.taskId
                  /\ t.user_id = p.userId
                  /\ n.id = t.id
                  /\ n.user_id = t.user_id
                  /\ n.created_at = t.created_at
                  /\ tasks' \ {n} = tasks \ {t}
        /\ (last'.op = "update" /\ last'.status \in {400, 404})
           => tasks' = tasks
        /\ \A t \in tasks : \A n \in tasks' :
             n.id = t.id => n.user_id = t.user_id ]_vars

\* an update answered 200 while the caller owns a second task and the row
\* changed
C23_Witness ==
    /\ last.op = "update"
    /\ last.status = 200
    /\ \E t \in tasks : /\ t.id = last.taskId
                        /\ t.title = <<"u">>
                        /\ t.priority = "medium"
    /\ \E o \in tasks : /\ o.id # last.taskId
                        /\ o.user_id = last.caller
                        /\ o.priority = "low"

\* the rows of table ts with id taskId owned by userId
OwnedRow(ts, taskId, userId) ==
    {t \in ts : t.id = taskId /\ t.user_id = userId}

\* the ids in table ts
TaskIds(ts) == {t.id : t \in ts}

\* C24: with task handlers waiting for the store at the same time, each
\* handler's one statement decides and acts on the table as it is when the
\* statement runs: an update or delete is answered 200 exactly when the
\* caller owns the row at that moment (the update replacing it, the delete
\* removing it) and is answered 404 with the table unchanged otherwise, so
\* an update and a delete of one task come out as one of their two serial
\* orders; the statement's step sends the response and leaves no further
\* statement of that handler waiting; an id once deleted never returns:
\* only create adds a row, under an id no row has had, and get and list
\* answer with rows of the table only
C24_TaskRaceSerializable ==
    [][ /\ \A p \in PendingOf("update") :
             DoUpdate(p)
             => IF OwnedRow(tasks, p.taskId, p.userId) # {}
                THEN /\ last'.status = 200
                     /\ taskJSON(CHOOSE t \in OwnedRow(tasks', p.taskId,
                                                       p.userId) : TRUE)
                          = last'.body.task
                     /\ TaskIds(tasks') = TaskIds(tasks)
                ELSE last'.status = 404 /\ tasks' = tasks
        /\ \A p \in PendingOf("delete") :
             DoDelete(p)
             => IF OwnedRow(tasks, p.taskId, p.userId) # {}
                THEN /\ last'.status = 200
                     /\ tasks' = tasks \ OwnedRow(tasks, p.taskId, p.userId)
                     /\ p.taskId \notin TaskIds(tasks')
                ELSE last'.status = 404 /\ tasks' = tasks
        /\ \A p \in PendingOf("get") :
             (DoGet(p) /\ last'.status = 200)
             => \E t \in tasks : last'.body.task = taskJSON(t)
        /\ \A p \in PendingOf("list") :
             DoList(p)
             => \A i \in 1..last'.body.count :
                  \E t \in tasks : last'.body.tasks[i] = taskJSON(t)
        /\ (last'.entered /\ last'.status # 0 /\ pending' # pending)
           => \E p \in BagToSet(pending) : pending' = Take(p)
        /\ \A id \in TaskIds(tasks') \ TaskIds(tasks) :
             /\ last'.op = "create"
             /\ id = nextTaskId
        /\ nextTaskId' >= nextTaskId
        /\ \A t \in tasks' : t.id < nextTaskId' ]_vars

\* a delete answered 200 while an update of the same task by its owner
\* waits for the store
C24_Witness ==
    /\ last.op = "delete"
    /\ last.status = 200
    /\ \E p \in PendingOf("update") :
         /\ p.taskId = last.taskId
         /\ p.userId = last.caller
    /\ last.taskId \notin TaskIds(tasks)

\* C25: when the statement of a waiting handler fails with an error other
\* than the unique violation, that step sends status 500 with the handler's
\* generic message (never the store's error code), the handler is no longer
\* waiting for the store (no retry, no further statement), and no table
\* changes; status 409 is sent only by signup, and only for an email that
\* is registered
C25_StoreFailureIs500 ==
    [][ /\ \A p \in BagToSet(pending) : \A code \in StoreFaults :
             StoreFails(p, code)
             => /\ last'.status = 500
                /\ last'.body
                     \in {ErrBody("Server error during signup"),
                          ErrBody("Server error during login"),
                          ErrBody("Server error fetching user"),
                          ErrBody("Server error fetching tasks"),
                          ErrBody("Server error fetching task"),
                          ErrBody("Server error creating task"),
                          ErrBody("Server error updating task"),
                          ErrBody("Server error deleting task")}
                /\ pending' = Take(p)
                /\ p \notin BagToSet(pending')
                /\ users' = users
                /\ tasks' = tasks
        /\ last'.status = 409
           => /\ last'.op = "signup"
              /\ \E p \in PendingOf("signup") :
                   /\ Taken(p)
                   /\ DoSignup(p) ]_vars

\* the store failed on the update of a task its caller owns
C25_Witness ==
    /\ last.op = "update"
    /\ last.status = 500
    /\ last.body = ErrBody("Server error updating task")
    /\ \E t \in tasks : t.id = last.taskId /\ t.user_id = last.caller

\* C26: validation precedes the store. A signup request with invalid fields
\* is answered 400 whether or not its email is registered; an update request
\* under an accepted token whose body is invalid (no usable title, or a
\* priority, status or dueDate that is not one of the field's values) is
\* answered 400 whatever its id names: a task of the caller, a task of
\* another user, or no task
C26_ValidationBeforeStore ==
    /\ \A b \in SignupBodies :
         BadSignup(b) => AnswerSignup(b, users).status = 400
    /\ \A i \in issued : \A id \in IdParams : \A b \in TaskBodies :
         (InvalidSupplied(b) \/ UnusableTitle(b))
         => AnswerUpdate(Bearer(i.token), id, b, tasks).status = 400

\* C28: in every state of the browser, isAuthenticated of the auth context
\* is true exactly when the item token is in browser storage
C28_AuthStateMatchesStorage ==
    isAuthenticated(tokenState) <=> storage.token # NoToken

----------------------------------------------------------------------------
(* The Tasks page: the list it shows is the React state tasks; each handler *)
(* sends its request, is suspended at its await holding the tasks value of  *)
(* the render in which it was started, and calls setTasks with a list built *)
(* from that value when its response arrives. The server answers each       *)
(* request whole when it is sent; responses arrive in any order.            *)

\* a handler suspended at its await: the function, the tasks value it closed
\* over, the id it was called for, and the response on its way
Suspended(call, closure, taskId, status, body) ==
    [call |-> call, closure |-> closure, taskId |-> taskId,
     status |-> status, body |-> body]

\* fetchTasks after await getTasks(): setTasks(data.tasks)
fetchTasksResolved(closure, data) == data.tasks

\* handleCreate after await createTask: setTasks([result.task, ...tasks])
handleCreateResolved(closure, result) == <<result.task>> \o closure

\* handleUpdate after await updateTask:
\* setTasks(tasks.map(t => t.id === editingTask.id ? result.task : t))
handleUpdateResolved(closure, editingId, result) ==
    [i \in 1..Len(closure) |->
        IF closure[i].id = editingId THEN result.task ELSE closure[i]]

\* handleDelete after await deleteTask:
\* setTasks(tasks.filter(t => t.id !== taskId))
handleDeleteResolved(closure, taskId) ==
    SelectSeq(closure, LAMBDA t : t.id # taskId)

\* the request bodies the form builds: description and dueDate are left out
\* when empty, priority and status always carry the value of their select
FormBodies ==
    {TaskBody(<<"u">>, Undef, "medium", UndefS, "pending"),
     TaskBody(<<"t">>, <<"d">>, "low", "2025-01-15", "in_progress")}

\* the tasks the page shows
Shown == {tasksState[i] : i \in 1..Len(tasksState)}

\* a handler can start: the page shows its list and the browser has room
\* for another request
CanStart == page = "ready" /\ BagCardinality(handlers) < MaxInbox

\* ProtectedRoute renders Tasks, whose effect calls fetchTasks
MountTasks ==
    /\ page = "off"
    /\ isAuthenticated(tokenState)
    /\ LET hdr == requestInterceptor(storage)
           g == runMiddleware("list", hdr, clock)
           h == getAllTasksSync(g.user)
       IN /\ \E rows \in orderByCreatedDesc(
                            getTasksByUserId(tasks, h.entry.userId)) :
               LET r == IF ~g.ok
                        THEN [status |-> g.status, body |-> ErrBody(g.error)]
                        ELSE IF h.reply
                        THEN [status |-> h.status, body |-> h.body]
                        ELSE getAllTasksDone(rows)
               IN /\ handlers' = handlers (+) SetToBag(
                        {Suspended("fetchTasks", <<>>, 0, r.status, r.body)})
                  /\ last' = Outcome("list", hdr, g.ok, 0, 0, r.status,
                                     r.body)
    /\ page' = "loading"
    /\ tasksState' = <<>>
    /\ clean' = TRUE
    /\ UNCHANGED <<users, tasks, nextTaskId, clock, issued, pending,
                   accounts, storage, inbox, session, tokenState,
                   navigating>>

\* the user submits the form with no task being edited
HandleCreate(b) ==
    /\ CanStart
    /\ nextTaskId <= MaxTaskId
    /\ LET hdr == requestInterceptor(storage)
           g == runMiddleware("create", hdr, clock)
           h == createSync(g.user, b)
           r == createDone(h.entry, tasks, nextTaskId, clock)
           stored == g.ok /\ ~h.reply
           a == IF ~g.ok
                THEN [status |-> g.status, body |-> ErrBody(g.error)]
                ELSE IF h.reply THEN [status |-> h.status, body |-> h.body]
                ELSE [status |-> r.status, body |-> r.body]
       IN /\ tasks' = IF stored THEN r.tasks ELSE tasks
          /\ nextTaskId' = IF stored THEN nextTaskId + 1 ELSE nextTaskId
          /\ handlers' = handlers (+) SetToBag(
                {Suspended("handleCreate", tasksState, 0, a.status, a.body)})
          /\ last' = Outcome("create", hdr, g.ok, 0, 0, a.status, a.body)
    /\ UNCHANGED <<users, clock, issued, pending, accounts, storage, inbox,
                   session, tokenState, navigating, page, tasksState, clean>>

\* the user edits shown task t and submits the form
HandleUpdate(t, b) ==
    /\ CanStart
    /\ t \in Shown
    /\ LET hdr == requestInterceptor(storage)
           g == runMiddleware("update", hdr, clock)
           h == updateSync(g.user, IdParamOf(t.id), b)
           r == updateDone(h.entry, tasks, clock)
           a == AnswerUpdate(hdr, IdParamOf(t.id), b, tasks)
       IN /\ tasks' = IF g.ok /\ ~h.reply THEN r.tasks ELSE tasks
          /\ handlers' = handlers (+) SetToBag(
                {Suspended("handleUpdate", tasksState, t.id, a.status,
                           a.body)})
          /\ last' = Outcome("update", hdr, g.ok, 0, t.id, a.status, a.body)
    /\ UNCHANGED <<users, nextTaskId, clock, issued, pending, accounts,
                   storage, inbox, session, tokenState, navigating, page,
                   tasksState, clean>>

\* the user clicks Delete on shown task t and confirms
HandleDelete(t) ==
    /\ CanStart
    /\ t \in Shown
    /\ LET hdr == requestInterceptor(storage)
           g == runMiddleware("delete", hdr, clock)
           h == removeSync(g.user, IdParamOf(t.id))
           r == removeDone(h.entry, tasks)
           a == AnswerDelete(hdr, IdParamOf(t.id), tasks)
       IN /\ tasks' = IF g.ok /\ ~h.reply THEN r.tasks ELSE tasks
          /\ handlers' = handlers (+) SetToBag(
                {Suspended("handleDelete", tasksState, t.id, a.status,
                           a.body)})
          /\ last' = Outcome("delete", hdr, g.ok, 0, t.id, a.status, a.body)
    /\ UNCHANGED <<users, nextTaskId, clock, issued, pending, accounts,
                   storage, inbox, session, tokenState, navigating, page,
                   tasksState, clean>>

\* the response of suspended handler h arrives: the response interceptor
\* runs, then the handler goes on after its await (setTasks on a resolved
\* call, the catch block on a rejected one; fetchTasks ends loading)
Resume(h) ==
    /\ h \in BagToSet(handlers)
    /\ handlers' = handlers (-) SetToBag({h})
    /\ storage' = responseInterceptor(storage, h.status)
    /\ navigating' = (navigating \/ h.status \in {401, 403})
    /\ tasksState' =
         IF ~Resolves(h.status) THEN tasksState
         ELSE CASE h.call = "fetchTasks" ->
                     fetchTasksResolved(h.closure, h.body)
                [] h.call = "handleCreate" ->
                     handleCreateResolved(h.closure, h.body)
                [] h.call = "handleUpdate" ->
                     handleUpdateResolved(h.closure, h.taskId, h.body)
                [] h.call = "handleDelete" ->
                     handleDeleteResolved(h.closure, h.taskId)
    /\ page' = IF h.call = "fetchTasks" THEN "ready" ELSE page
    /\ clean' = (clean /\ Resolves(h.status))
    /\ last' = Handled(h)
    /\ UNCHANGED <<users, tasks, nextTaskId, clock, issued, pending,
                   accounts, inbox, session, tokenState>>

NextTasksPage ==
    \/ ClientSignup(SignupBody(EmailA, Pw1, NameN))
    \/ \E m \in BagToSet(inbox) : Deliver(m)
    \/ MountTasks
    \/ \E b \in FormBodies : HandleCreate(b)
    \/ \E t \in Shown : \E b \in FormBodies : HandleUpdate(t, b)
    \/ \E t \in Shown : HandleDelete(t)
    \/ \E h \in BagToSet(handlers) : Resume(h)

SpecTasksPage == Init /\ [][NextTasksPage]_vars

\* the task objects the server holds for the user of the page
ServerTasks ==
    {taskJSON(t) : t \in getTasksByUserId(tasks, tokenState.userId)}

\* C27: whenever the Tasks page is shown, none of its requests has failed
\* and none is still in flight, the list it shows holds exactly the tasks
\* the server holds for the user, each once
C27_ViewMatchesServer ==
    (page = "ready" /\ clean /\ handlers = EmptyBag)
    => /\ Shown = ServerTasks
       /\ Len(tasksState) = Cardinality(ServerTasks)

====
